---- MODULE Spec2Model ----
(***************************************************************************)
(* Model of Scripts/SpLag.py: the spatial-lag regression tool.            *)
(* One run of the script is a straight line                               *)
(*   setupParameters -> GMLag_PySAL.initialize -> GMLag_PySAL.calculate    *)
(*                   -> GMLag_PySAL.createOutput                          *)
(* that either reaches the end, leaves through SystemExit (a validation   *)
(* error) or dies from an exception nobody catches.                       *)
(*                                                                         *)
(* Strings are sequences of one-character strings, so that upper() and    *)
(* split(";") are computed.  Numbers of the dependent variable are small  *)
(* binary floating point numbers with MantBits significant bits, so that  *)
(* the rounding of NUM.var is computed.                                   *)
(***************************************************************************)
EXTENDS Integers, Sequences, FiniteSets, TLC

VARIABLES
    params,        \* the host's tool parameters 1 and 2, as raw text
    fc,            \* the input feature class as the host stores it
    pc,            \* position of the run
    ssdo,          \* the SSDataObject built by setupParameters
    depVarName,    \* self.depVarName
    indVarNames,   \* self.indVarNames (a list, mutated by initialize)
    allVars,       \* self.allVars
    y,             \* self.y
    x,             \* self.x
    n,             \* self.n
    k,             \* self.k
    lag,           \* self.lag, the estimator's result
    dof,           \* self.dof
    resData,       \* self.resData
    output,        \* the feature class written by output2NewFC
    symbology,     \* params[4].Symbology and the render type it came from
    msgs           \* the ids of the host messages added so far, in order

vars == <<params, fc, pc, ssdo, depVarName, indVarNames, allVars, y, x, n, k,
          lag, dof, resData, output, symbology, msgs>>

(***************************************************************************)
(* Bounds of the model.                                                    *)
(***************************************************************************)
MaxText == 3        \* longest independent-variable text of Spec
MaxNamesText == 5   \* longest independent-variable text of SpecNames
MaxObs == 6         \* most rows of the input feature class
MantBits == 3       \* significant bits of the floating point numbers

(***************************************************************************)
(* Program constants.                                                      *)
(***************************************************************************)
MinNumObs == 5
FIELDNAMES == <<"Estimated", "Residual", "StdResid", "PredRes">>

ErrMasterIsDep == 945
WarnMasterInInd == 736
WarnDepInInd == 850
ErrNoIndVars == 737
ErrZeroVariance == 906
WarnSymbology == 973

(***************************************************************************)
(* Text: upper() and split(";").                                           *)
(***************************************************************************)
Letters == {"i", "y", "x", "w"}
Alphabet == Letters \cup {";"}

Texts(max) == UNION {[1..m -> Alphabet] : m \in 0..max}

UpperChar(c) ==
    CASE c = "i" -> "I"
      [] c = "y" -> "Y"
      [] c = "x" -> "X"
      [] c = "w" -> "W"
      [] OTHER -> c

Upper(s) == [j \in 1..Len(s) |-> UpperChar(s[j])]

Range(s) == {s[j] : j \in 1..Len(s)}

RECURSIVE Split(_)
Split(s) ==
    IF ";" \notin Range(s)
    THEN <<s>>
    ELSE LET p == CHOOSE j \in 1..Len(s) :
                      s[j] = ";" /\ \A m \in 1..(j - 1) : s[m] # ";"
         IN <<SubSeq(s, 1, p - 1)>> \o Split(SubSeq(s, p + 1, Len(s)))

\* list.remove(v): deletes the first element equal to v, and only that one
Remove(list, v) ==
    LET p == CHOOSE j \in 1..Len(list) :
                 list[j] = v /\ \A m \in 1..(j - 1) : list[m] # v
    IN SubSeq(list, 1, p - 1) \o SubSeq(list, p + 1, Len(list))

(***************************************************************************)
(* Numbers.  NaN is the one value that is not a number.                    *)
(***************************************************************************)
NaN == 0 - 1000

RECURSIVE Pow2(_)
Pow2(e) == IF e = 0 THEN 1 ELSE 2 * Pow2(e - 1)

RECURSIVE Gcd(_, _)
Gcd(a, b) == IF b = 0 THEN a ELSE Gcd(b, a % b)

RECURSIVE SumSeq(_)
SumSeq(s) == IF s = <<>> THEN 0 ELSE Head(s) + SumSeq(Tail(s))

\* the exponent e >= 0 with 2^(MantBits-1) * 2^e <= a/b < 2^MantBits * 2^e
RECURSIVE Exponent(_, _, _)
Exponent(a, b, e) ==
    IF a < b * Pow2(MantBits) * Pow2(e) THEN e ELSE Exponent(a, b, e + 1)

\* a/b rounded to MantBits significant bits, ties to even (a/b >= 2^(MantBits-1))
RoundSig(a, b) ==
    LET e == Exponent(a, b, 0)
        d == b * Pow2(e)
        q == a \div d
        r == a % d
        m == IF 2 * r > d \/ (2 * r = d /\ q % 2 = 1) THEN q + 1 ELSE q
    IN m * Pow2(e)

\* numbers are kept in units of 2^-MantBits while they are averaged
Unit == Pow2(MantBits)

\* the floating point sum of a vector, added up from left to right
RECURSIVE FlSum(_, _)
FlSum(v, upto) ==
    IF upto = 1 THEN v[1] * Unit
    ELSE RoundSig(FlSum(v, upto - 1) + v[upto] * Unit, 1)

FlMean(v) == RoundSig(FlSum(v, Len(v)), Len(v))

\* NUM.var(v) as far as the script looks at it: "nan", "zero" or "positive".
\* The squared deviations are sums of squares of exact differences, so the
\* result is positive exactly when some element differs from the rounded mean.
Var(v) ==
    IF \E j \in 1..Len(v) : v[j] = NaN THEN "nan"
    ELSE IF \E j \in 1..Len(v) : v[j] * Unit # FlMean(v) THEN "positive"
    ELSE "zero"

(***************************************************************************)
(* The input feature class.                                                *)
(***************************************************************************)
\* values a row of the dependent variable can hold
YVals == {Pow2(MantBits - 1) + 1, Pow2(MantBits) - 1, NaN}

\* the dependent variable's column: one value in the first row, one in the rest
YVectors(rows) == {[j \in 1..rows |-> IF j = 1 THEN a ELSE b] : a, b \in YVals}

CharCode(c) ==
    CASE c = "I" -> 1 [] c = "Y" -> 2 [] c = "X" -> 3 [] c = "W" -> 4 [] OTHER -> 0

RECURSIVE NameCode(_)
NameCode(s) == IF s = <<>> THEN 0 ELSE CharCode(Head(s)) + 5 * NameCode(Tail(s))

\* ssdo.fields[v].data: the column the dependent parameter names holds
\* fc.yData, every other column holds numbers that tell the columns apart
FieldData(v) ==
    IF v = Upper(params.depVar) THEN fc.yData
    ELSE [j \in 1..fc.numObs |-> 10 * NameCode(v) + j]

NoVector == <<>>
NoMatrix == [rows |-> 0, cols |-> 0, data |-> <<>>]
None == <<>>
NoLag == [invoked |-> FALSE, name_y |-> <<>>, name_x |-> <<>>,
          u |-> <<>>, predy |-> <<>>, e_pred |-> None]
NoOutput == [written |-> FALSE, rows |-> 0, columns |-> {}, fields |-> <<>>]
\* no render type looked up yet
NotLookedUp == 0 - 2
NoSymbology == [renderType |-> NotLookedUp, layer |-> ""]

MasterFields == {<<"I">>, <<"Y">>, <<"O">>}

\* the feature classes with the given numbers of rows
Datasets(obs) ==
    UNION {[masterField : MasterFields, numObs : {rows}, yData : YVectors(rows)] :
              rows \in obs}

InitWith(texts, datasets) ==
    /\ params \in [depVar : {<<"y">>, <<"i">>}, indVars : texts]
    /\ fc \in datasets
    /\ pc = "setupParameters"
    /\ ssdo = [masterField |-> <<>>, numObs |-> 0]
    /\ depVarName = <<>>
    /\ indVarNames = <<>>
    /\ allVars = <<>>
    /\ y = NoMatrix
    /\ x = NoMatrix
    /\ n = 0
    /\ k = 0
    /\ lag = NoLag
    /\ dof = 0
    /\ resData = NoVector
    /\ output = NoOutput
    /\ symbology = NoSymbology
    /\ msgs = <<>>

Init == InitWith(Texts(MaxText), Datasets(MinNumObs..MaxObs))

(***************************************************************************)
(* setupParameters, up to the construction of GMLag_PySAL.                 *)
(***************************************************************************)
\* the feature class has a column for every name that is not empty
HasColumn(v) == v # <<>>

setupParameters ==
    /\ pc = "setupParameters"
    /\ LET dep == Upper(params.depVar)
           ind == Split(Upper(params.indVars))
           fieldList == <<dep>> \o ind
       IN IF \E j \in 1..Len(fieldList) : ~HasColumn(fieldList[j])
          THEN \* obtainData cannot read a field the feature class lacks
               /\ pc' = "obtainDataFailed"
               /\ UNCHANGED <<depVarName, indVarNames, ssdo>>
          ELSE /\ depVarName' = dep
               /\ indVarNames' = ind
               /\ ssdo' = [masterField |-> fc.masterField,
                           numObs |-> fc.numObs]
               /\ pc' = "initialize"
    /\ UNCHANGED <<params, fc, allVars, y, x, n, k, lag, dof, resData, output,
                   symbology, msgs>>

(***************************************************************************)
(* GMLag_PySAL.initialize                                                  *)
(***************************************************************************)
\* the comparison made against the parameter as typed, not yet upper-cased
MasterIsDependentRaw(master, dep) == master = params.depVar

MasterIsDependent(master, dep) == master = dep

\* the dependent variable left out of the appended fields
AllVarsIndOnly(dep, ind) == ind

AllVars(dep, ind) == <<dep>> \o ind

\* NUM.ones((n, k)): one column too many, left as a column of ones
DesignMatrixWithOnes(rows, kk, ind) ==
    [rows |-> rows, cols |-> kk,
     data |-> [j \in 1..kk |->
                  IF j <= Len(ind) THEN FieldData(ind[j])
                  ELSE [r \in 1..rows |-> 1]]]

\* the design matrix: NUM.ones((n, k - 1)), then column j is overwritten
\* with the data of the j-th independent variable
DesignMatrix(rows, kk, ind) ==
    [rows |-> rows, cols |-> kk - 1,
     data |-> [j \in 1..(kk - 1) |->
                  IF j <= Len(ind) THEN FieldData(ind[j])
                  ELSE [r \in 1..rows |-> 1]]]

SystemExit(list, id) ==
    /\ pc' = "exit"
    /\ msgs' = msgs \o list \o <<id>>

initialize ==
    /\ pc = "initialize"
    /\ LET master == ssdo.masterField
           hasMaster == master \in Range(indVarNames)
           l1 == IF hasMaster THEN Remove(indVarNames, master) ELSE indVarNames
           hasDep == depVarName \in Range(l1)
           l2 == IF hasDep THEN Remove(l1, depVarName) ELSE l1
           warned == (IF hasMaster THEN <<WarnMasterInInd>> ELSE <<>>)
                     \o (IF hasDep THEN <<WarnDepInInd>> ELSE <<>>)
           yNew == [rows |-> ssdo.numObs, cols |-> 1,
                    data |-> FieldData(depVarName)]
           yVar == Var(yNew.data)
       IN IF MasterIsDependent(master, depVarName)
          THEN /\ SystemExit(<<>>, ErrMasterIsDep)
               /\ UNCHANGED <<indVarNames, allVars, y, x, n, k>>
          ELSE IF Len(l2) = 0
          THEN /\ SystemExit(warned, ErrNoIndVars)
               /\ indVarNames' = l2
               /\ UNCHANGED <<allVars, y, x, n, k>>
          ELSE IF yVar = "nan" \/ yVar = "zero"
          THEN /\ SystemExit(warned, ErrZeroVariance)
               /\ indVarNames' = l2
               /\ allVars' = AllVars(depVarName, l2)
               /\ y' = yNew
               /\ n' = ssdo.numObs
               /\ UNCHANGED <<x, k>>
          ELSE /\ pc' = "calculate"
               /\ msgs' = msgs \o warned
               /\ indVarNames' = l2
               /\ allVars' = AllVars(depVarName, l2)
               /\ y' = yNew
               /\ n' = ssdo.numObs
               /\ k' = Len(l2) + 1
               /\ x' = DesignMatrix(ssdo.numObs, Len(l2) + 1, l2)
    /\ UNCHANGED <<params, fc, ssdo, depVarName, lag, dof, resData, output,
                   symbology>>

(***************************************************************************)
(* GMLag_PySAL.calculate                                                   *)
(***************************************************************************)
\* residual vectors the estimator can return
UPairs == {<<0, 0>>, <<2, -1>>, <<-1, 0>>}
UVectors(rows) == {[j \in 1..rows |-> IF j = 1 THEN p[1] ELSE p[2]] : p \in UPairs}

\* predicted-error results the estimator can return: none, or an array
EPreds(rows) == {None, [j \in 1..rows |-> j]}

PredY(rows) == [j \in 1..rows |-> 2 * j]

Sign(v) == IF v > 0 THEN 1 ELSE IF v < 0 THEN -1 ELSE 0

Nan == [kind |-> "nan", sign |-> 0, num |-> 0, den |-> 1]
Inf(s) == [kind |-> "inf", sign |-> s, num |-> 0, den |-> 1]

\* the number s * sqrt(a / b), a >= 0 and b > 0, kept as a sign and a reduced
\* fraction under the root
Root(s, a, b) ==
    IF a = 0 \/ s = 0 THEN [kind |-> "num", sign |-> 0, num |-> 0, den |-> 1]
    ELSE [kind |-> "num", sign |-> s, num |-> a \div Gcd(a, b),
          den |-> b \div Gcd(a, b)]

\* the degrees of freedom without the extra parameter
DofNoLag(numObs, kk) == numObs - kk

Dof(numObs, kk) == numObs - kk - 1

\* rows^2 times the square of u.std(), the population standard deviation
Std2(u) ==
    Len(u) * SumSeq([j \in 1..Len(u) |-> u[j] * u[j]]) - SumSeq(u) * SumSeq(u)

\* sdCoeff * u / bottom, with sdCoeff = NUM.sqrt(1.0 * d / rows) and
\* bottom = u.std(); the square root of a negative number is nan, 0/0 is nan
\* and a non-zero number over 0 is infinite
ResData(d, rows, u) ==
    [j \in 1..Len(u) |->
        IF d < 0 THEN Nan
        ELSE IF Std2(u) = 0
        THEN (IF d = 0 \/ u[j] = 0 THEN Nan ELSE Inf(Sign(u[j])))
        ELSE Root(Sign(u[j]), d * u[j] * u[j] * rows * rows, rows * Std2(u))]

calculate ==
    /\ pc = "calculate"
    /\ \/ \* GM_Lag raises: nobody catches it
          /\ pc' = "crashed"
          /\ UNCHANGED <<lag, dof, resData>>
       \/ \E u \in UVectors(n), e \in EPreds(n) :
            /\ lag' = [invoked |-> TRUE, name_y |-> depVarName,
                       name_x |-> indVarNames, u |-> u, predy |-> PredY(n),
                       e_pred |-> e]
            /\ dof' = Dof(ssdo.numObs, k)
            /\ resData' = ResData(Dof(ssdo.numObs, k), n, u)
            /\ pc' = "createOutput"
    /\ UNCHANGED <<params, fc, ssdo, depVarName, indVarNames, allVars, y, x, n,
                   k, output, symbology, msgs>>

(***************************************************************************)
(* GMLag_PySAL.createOutput                                                *)
(***************************************************************************)
\* NUM.ones(numObs) without the multiplication by NUM.nan
EPredOutOnes(e_pred, numObs) ==
    IF e_pred = None THEN [j \in 1..numObs |-> 1] ELSE e_pred

\* NUM.ones(numObs) * NUM.nan when there is no predicted-error array
EPredOut(e_pred, numObs) ==
    IF e_pred = None THEN [j \in 1..numObs |-> NaN] ELSE e_pred

CandidateField(name, type, data) == [name |-> name, type |-> type, data |-> data]

CandidateFields(ePredOut) ==
    (FIELDNAMES[1] :> CandidateField(FIELDNAMES[1], "Double", lag.predy))
    @@ (FIELDNAMES[2] :> CandidateField(FIELDNAMES[2], "Double", lag.u))
    @@ (FIELDNAMES[3] :> CandidateField(FIELDNAMES[3], "Double", resData))
    @@ (FIELDNAMES[4] :> CandidateField(FIELDNAMES[4], "Double", ePredOut))

\* ssdo.output2NewFC: the new feature class holds one row for each
\* observation, the identifier field, the appended fields and the candidates
Output2NewFC(candidateFields, appendFields) ==
    [written |-> TRUE, rows |-> ssdo.numObs,
     columns |-> {ssdo.masterField} \cup Range(appendFields),
     fields |-> candidateFields]

\* what UTILS.renderType[shapeType.upper()] can give; KeyError is a failed lookup
KeyError == 0 - 1
RenderTypes == {0, 1, 2}

\* the polyline and polygon templates swapped
RenderLayerFileSwapped(renderType) ==
    IF renderType = 0 THEN "StdResidPoints.lyr"
    ELSE IF renderType = 1 THEN "StdResidPolygons.lyr"
    ELSE "StdResidPolylines.lyr"

RenderLayerFile(renderType) ==
    IF renderType = 0 THEN "StdResidPoints.lyr"
    ELSE IF renderType = 1 THEN "StdResidPolylines.lyr"
    ELSE "StdResidPolygons.lyr"

\* the try block: any failure in it adds warning 973 and the run goes on
SetSymbology(renderType, assigned) ==
    IF renderType = KeyError \/ ~assigned
    THEN /\ symbology' = [renderType |-> renderType, layer |-> ""]
         /\ msgs' = Append(msgs, WarnSymbology)
    ELSE /\ symbology' = [renderType |-> renderType,
                          layer |-> RenderLayerFile(renderType)]
         /\ msgs' = msgs

createOutput ==
    /\ pc = "createOutput"
    /\ \/ \* "e_pred == None" compares elementwise in some numpy builds, and
          \* the truth value of an array of several elements is a ValueError
          /\ lag.e_pred # None
          /\ Len(lag.e_pred) > 1
          /\ pc' = "crashed"
          /\ UNCHANGED <<output, symbology, msgs>>
       \/ \* output2NewFC raises: nothing is written
          /\ pc' = "crashed"
          /\ UNCHANGED <<output, symbology, msgs>>
       \/ /\ output' = Output2NewFC(
                           CandidateFields(EPredOut(lag.e_pred, ssdo.numObs)),
                           allVars)
          /\ \E renderType \in RenderTypes \cup {KeyError}, assigned \in BOOLEAN :
                SetSymbology(renderType, assigned)
          /\ pc' = "done"
    /\ UNCHANGED <<params, fc, ssdo, depVarName, indVarNames, allVars, y, x, n,
                   k, lag, dof, resData>>

Next ==
    \/ setupParameters
    \/ initialize
    \/ calculate
    \/ createOutput

Spec == Init /\ [][Next]_vars

\* the same program on long independent-variable texts and one dataset
VariedVector(rows) ==
    [j \in 1..rows |-> IF j = 1 THEN Pow2(MantBits) - 1 ELSE Pow2(MantBits - 1) + 1]

VariedDatasets ==
    [masterField : MasterFields, numObs : {MinNumObs},
     yData : {VariedVector(MinNumObs)}]

InitNames == InitWith(Texts(MaxNamesText), VariedDatasets)

SpecNames == InitNames /\ [][Next]_vars

(***************************************************************************)
(* Properties.                                                             *)
(***************************************************************************)
\* the independent-variable list handed to GMLag_PySAL
InputList == Split(Upper(params.indVars))

Constructed == pc \notin {"setupParameters", "obtainDataFailed", "initialize"}
Initialized == pc \in {"calculate", "createOutput", "done", "crashed"}
NothingComputed == ~lag.invoked /\ ~output.written /\ x = NoMatrix
LastMsg == IF msgs = <<>> THEN 0 ELSE msgs[Len(msgs)]

\* C1: when the identifier field equals the dependent variable name, the run
\* reports error 945 and ends inside initialize: the estimator is not invoked
\* and nothing is written, whatever the independent-variable list and data are.
C1_MasterIsDependentExits ==
    (Constructed /\ ssdo.masterField = depVarName)
        => /\ pc = "exit"
           /\ msgs = <<ErrMasterIsDep>>
           /\ NothingComputed

C1_Witness ==
    /\ pc = "exit"
    /\ ssdo.masterField = depVarName
    /\ Len(InputList) >= 2
    /\ msgs = <<ErrMasterIsDep>>

\* C2: when the independent-variable list holds no name besides the identifier
\* field and the dependent variable (repeated names allowed), the run reports
\* error 737 and ends inside initialize, without estimator and output.
C2_OnlyMasterAndDepExits ==
    (/\ Constructed
     /\ ssdo.masterField # depVarName
     /\ Range(InputList) \subseteq {ssdo.masterField, depVarName})
        => /\ pc = "exit"
           /\ LastMsg = ErrNoIndVars
           /\ NothingComputed

AllEqual(v) == \A j \in 1..Len(v) : v[j] = v[1]
HasNaN(v) == \E j \in 1..Len(v) : v[j] = NaN

\* C3: when the identifier and independent-list checks are passed and the
\* dependent variable holds one value in all rows, or its variance is
\* undefined, the run reports error 906 and ends inside initialize, before the
\* design matrix, the estimator and the output.
C3_ConstantDependentExits ==
    (/\ Constructed
     /\ allVars # <<>>
     /\ (AllEqual(fc.yData) \/ HasNaN(fc.yData)))
        => /\ pc = "exit"
           /\ LastMsg = ErrZeroVariance
           /\ NothingComputed

Kept(v) == v # ssdo.masterField /\ v # depVarName

\* C4: when initialize completes, the independent-variable list used for the
\* design matrix and passed as name_x holds neither the identifier field nor
\* the dependent variable, warning 736 resp. 850 was added exactly for the
\* names that were present, and the other names keep their order.
C4_RemovedNamesAreGone ==
    Initialized
        => /\ ssdo.masterField \notin Range(indVarNames)
           /\ depVarName \notin Range(indVarNames)
           /\ indVarNames = SelectSeq(InputList, Kept)
           /\ (WarnMasterInInd \in Range(msgs))
                  <=> (ssdo.masterField \in Range(InputList))
           /\ (WarnDepInInd \in Range(msgs)) <=> (depVarName \in Range(InputList))
           /\ lag.invoked => lag.name_x = indVarNames

\* C5: after calculate the standardized residual is, element by element,
\* sqrt(dof / n) * residual / std(residual) with dof = n minus the number of
\* retained independent variables minus 2 (a negative dof and 0/0 give nan, a
\* non-zero number over 0 is infinite).
C5_StandardizedResidual ==
    lag.invoked =>
        LET rows == fc.numObs
            d == rows - Len(indVarNames) - 2
            u == lag.u
            sumSq == SumSeq([j \in 1..rows |-> u[j] * u[j]])
            s2 == rows * sumSq - SumSeq(u) * SumSeq(u)
        IN /\ dof = d
           /\ Len(resData) = rows
           /\ \A j \in 1..rows :
                LET r == resData[j]
                IN IF d < 0 THEN r.kind = "nan"
                   ELSE IF s2 = 0
                   THEN IF d = 0 \/ u[j] = 0 THEN r.kind = "nan"
                        ELSE r.kind = "inf" /\ r.sign = Sign(u[j])
                   ELSE /\ r.kind = "num"
                        /\ r.sign = (IF d = 0 THEN 0 ELSE Sign(u[j]))
                        /\ r.den > 0
                        /\ r.num * s2 = r.den * d * u[j] * u[j] * rows

C5_Witness ==
    /\ lag.invoked
    /\ dof > 0
    /\ \E j \in 1..Len(resData) : resData[j].kind = "num" /\ resData[j].sign = -1
    /\ \E j \in 1..Len(resData) : resData[j].kind = "num" /\ resData[j].sign = 1

\* C6: in the written output the "PredRes" values are all NaN, one for each
\* row, when the estimator gave no predicted-error array, and are the
\* estimator's array unchanged when it gave one.
C6_PredResColumn ==
    output.written =>
        LET col == output.fields["PredRes"].data
        IN IF lag.e_pred = None
           THEN /\ Len(col) = fc.numObs
                /\ \A j \in 1..Len(col) : col[j] = NaN
           ELSE col = lag.e_pred

C6_Witness ==
    /\ output.written
    /\ lag.e_pred = None
    /\ Len(output.fields["PredRes"].data) = fc.numObs

\* C7: the written feature class holds the identifier field, the dependent
\* variable and every retained independent variable, the four Double fields
\* Estimated, Residual, StdResid and PredRes with the predicted values, the
\* residuals, the standardized residuals and the predicted errors, nothing
\* else, and as many rows as the input.
C7_OutputColumns ==
    output.written =>
        /\ output.columns = {ssdo.masterField, depVarName} \cup Range(indVarNames)
        /\ DOMAIN output.fields = {"Estimated", "Residual", "StdResid", "PredRes"}
        /\ \A f \in DOMAIN output.fields :
              output.fields[f].name = f /\ output.fields[f].type = "Double"
        /\ output.fields["Estimated"].data = lag.predy
        /\ output.fields["Residual"].data = lag.u
        /\ output.fields["StdResid"].data = resData
        /\ output.rows = fc.numObs

C7_Witness ==
    /\ output.written
    /\ Len(indVarNames) = 2
    /\ Cardinality(output.columns) = 4

\* C8: the symbology is set only once the output is written; the template is
\* the point template for render type 0, the polyline template for 1 and the
\* polygon template otherwise; a failed lookup or assignment adds warning 973
\* and the run still ends normally with the output in place.
C8_SymbologyBestEffort ==
    /\ (symbology # NoSymbology \/ WarnSymbology \in Range(msgs))
           => output.written /\ pc = "done"
    /\ pc = "done" =>
          /\ output.written
          /\ IF symbology.renderType = KeyError
             THEN symbology.layer = "" /\ LastMsg = WarnSymbology
             ELSE \/ symbology.layer = "" /\ LastMsg = WarnSymbology
                  \/ /\ WarnSymbology \notin Range(msgs)
                     /\ symbology.renderType = 0
                            => symbology.layer = "StdResidPoints.lyr"
                     /\ symbology.renderType = 1
                            => symbology.layer = "StdResidPolylines.lyr"
                     /\ symbology.renderType \notin {0, 1}
                            => symbology.layer = "StdResidPolygons.lyr"

C8_Witness ==
    /\ pc = "done"
    /\ output.written
    /\ symbology.renderType = 1
    /\ symbology.layer = ""
    /\ LastMsg = WarnSymbology

\* C9: whenever the estimator is invoked the response vector is n x 1 and the
\* design matrix has n rows and k - 1 columns, one for each retained
\* independent variable in the order of name_x, holding that variable's data;
\* no column of ones is added.
C9_DesignMatrixShape ==
    lag.invoked =>
        /\ y.rows = fc.numObs /\ y.cols = 1 /\ Len(y.data) = fc.numObs
        /\ y.data = fc.yData
        /\ x.rows = fc.numObs
        /\ x.cols = k - 1
        /\ x.cols = Len(lag.name_x)
        /\ Len(x.data) = x.cols
        /\ \A j \in 1..x.cols :
              /\ x.data[j] = FieldData(lag.name_x[j])
              /\ Len(x.data[j]) = fc.numObs
              /\ x.data[j] # [r \in 1..fc.numObs |-> 1]

C9_Witness ==
    /\ lag.invoked
    /\ x.cols = 2
    /\ lag.name_x[1] # lag.name_x[2]
    /\ x.data[1] # x.data[2]

\* C10: in every run that reaches the standardized residuals the degrees of
\* freedom n - k - 1 are strictly positive.
C10_DofPositive ==
    lag.invoked => dof > 0

====
